---- MODULE Spec2Model ----
(***************************************************************************)
(* A model of the workshop notebooks of hadoop-ds-workshop:                *)
(*   tutorial/02-Apache-Spark.ipynb          (RDD operations, laziness)    *)
(*   tutorial/02-Apache-Spark-solution.ipynb (FizzBuzz histogram)          *)
(*   tutorial/04-Machine-Learning-example.ipynb (two models, predict, MSE) *)
(* A behaviour is one kernel session running the cells of one notebook.    *)
(* The engine the cells call (Spark) is modelled as the notebooks describe *)
(* it: transformations build a lineage, actions evaluate it element by     *)
(* element in partition order.  Floats are modelled by integers.           *)
(***************************************************************************)
EXTENDS Integers, Sequences, FiniteSets, TLC

VARIABLES
    notebook,        \* which notebook this kernel session runs
    \* ---- 02-Apache-Spark.ipynb
    numSlices,       \* default parallelism of sc: partitions of spark_rdd
    result,          \* the name `result`: "undef" or "mapped" (spark_rdd.map(f))
    calls,           \* invocations of time_consuming_function so far
    callsAtMap,      \* value of calls when `result` was last assigned
    actionsOnResult, \* actions requested on the RDD `result` names
    job,             \* the take job in progress
    printed,         \* what the last take cell printed
    runs,            \* completed runs of the take cell
    ran,             \* cells of the comparison section that have run
    outPy,           \* output of each Python comparison cell
    outSpark,        \* output of each Spark comparison cell
    \* ---- 02-Apache-Spark-solution.ipynb
    histPos,         \* rows of fizzbuzz.csv the histogram job has consumed
    hist,            \* the reduceByKey accumulator: key -> count
    histOut,         \* the histogram cell: "pending", "running", "done", "error"
    \* ---- 04-Machine-Learning-example.ipynb
    file,            \* the lines of the fizzbuzz.csv the kernel reads
    pc,              \* the next cell of the notebook to run
    outCount,        \* outcome of the cell rdd.count()
    outNotNumbers,   \* outcome of the cell not_numbers.take(20)
    clsSplit,        \* classification_points_train/_test: the randomSplit draw
    regSplit,        \* regression_points_train/_test: the randomSplit draw
    classification_model, \* the trained classifier and what it was trained on
    regression_model,     \* the trained regressor and what it was trained on
    clsMSE,          \* outcome of the classification MSE cell
    regMSE,          \* outcome of the regression MSE cell
    x,               \* the global name x of the kernel
    loop,            \* position of the final cell's comprehension
    lastPredict      \* the last call of predict(n) and its outcome

sparkVars == <<numSlices, result, calls, callsAtMap, actionsOnResult, job,
               printed, runs, ran, outPy, outSpark>>

solutionVars == <<histPos, hist, histOut>>

mlVars == <<file, pc, outCount, outNotNumbers, clsSplit, regSplit,
            classification_model, regression_model, clsMSE, regMSE, x, loop,
            lastPredict>>

vars == <<notebook, sparkVars, solutionVars, mlVars>>

\* ------------------------------------------------------------------------
\* Bounds of the model
MaxSlices == 4      \* default parallelism ranges over 1..MaxSlices
MaxRuns == 2        \* the take cell is re-run at most this many times
HistBlock == 1000
MaxRows == 3
MaxWeight == 2      \* the trained regression weight ranges over 1..MaxWeight
MaxPredictN == 5    \* predict(n) is called directly with n in 1..MaxPredictN
   \* rows the histogram job consumes per step

\* Program constants
ListSize == 100     \* range(100)
TakeCount == 5      \* result.take(5)
FilterLimit == 10   \* lambda n: n <= 10
NumRows == 200000   \* rows of fizzbuzz.csv: the numbers 1..200000
TakeRows == 20      \* not_numbers.take(20)
PredictRange == 20  \* [ predict(x) for x in range(1,21) ]

\* ------------------------------------------------------------------------
\* Generic helpers
RECURSIVE Flatten(_)
Flatten(ss) == IF ss = <<>> THEN <<>> ELSE Head(ss) \o Flatten(Tail(ss))

\* list(f): the sequence f with every element evaluated
list(f) == f \o <<>>

\* Python strings are sequences of one-character strings.
Str_Fizz == <<"F", "i", "z", "z">>
Str_Buzz == <<"B", "u", "z", "z">>
Str_FizzBuzz == Str_Fizz \o Str_Buzz
Str_Number == <<"N", "u", "m", "b", "e", "r">>

DigitChars == <<"0", "1", "2", "3", "4", "5", "6", "7", "8", "9">>
DigitSet == {DigitChars[d] : d \in 1..10}
Whitespace == {" "}

\* str(n) for n >= 0
RECURSIVE Digits(_)
Digits(n) ==
    IF n < 10 THEN <<DigitChars[n + 1]>>
    ELSE Append(Digits(n \div 10), DigitChars[(n % 10) + 1])

\* s.strip()
RECURSIVE lstrip(_)
lstrip(s) == IF s # <<>> /\ Head(s) \in Whitespace THEN lstrip(Tail(s)) ELSE s
RECURSIVE rstrip(_)
rstrip(s) ==
    IF s # <<>> /\ s[Len(s)] \in Whitespace THEN rstrip(SubSeq(s, 1, Len(s) - 1)) ELSE s
strip(s) == rstrip(lstrip(s))

\* s.split(','): the fields between the commas, at least one field
RECURSIVE split_from(_, _, _)
split_from(s, i, field) ==
    IF i > Len(s) THEN <<field>>
    ELSE IF s[i] = "," THEN <<field>> \o split_from(s, i + 1, <<>>)
    ELSE split_from(s, i + 1, Append(field, s[i]))
split(s) == split_from(s, 1, <<>>)

\* ------------------------------------------------------------------------
\* 02-Apache-Spark.ipynb

\* python_list = range(100)
python_list == [i \in 1..ListSize |-> i - 1]

\* sc.parallelize(xs): xs cut into numSlices contiguous partitions
parallelize(xs, n) ==
    [p \in 1..n |-> SubSeq(xs, ((p - 1) * Len(xs)) \div n + 1, (p * Len(xs)) \div n)]

\* spark_rdd = sc.parallelize(range(100))
spark_rdd == parallelize(python_list, numSlices)

\* rdd.collect(): the partitions' contents, in partition order
collect(rdd) == Flatten(rdd)

\* lambda n: n <= 10
le10_strict(n) == n < FilterLimit
le10(n) == n <= FilterLimit

\* filter(lambda n: n <= 10, python_list)
py_filter_le10 == SelectSeq(python_list, le10)

\* rdd.filter(lambda n: n <= 10): the lineage applied partition by partition
rdd_filter_le10(rdd) == [p \in 1..Len(rdd) |-> SelectSeq(rdd[p], le10)]

\* spark_rdd.filter(lambda n: n <= 10).collect()
spark_filter_le10 == collect(rdd_filter_le10(spark_rdd))

\* rdd.count(): the sizes of the partitions p.. of the RDD, summed
RECURSIVE count_from(_, _)
count_from(rdd, p) ==
    IF p > Len(rdd) THEN 0 ELSE Len(rdd[p]) + count_from(rdd, p + 1)
rdd_size(rdd) == count_from(rdd, 1)

\* lambda n: n % 2 == 0, the filter of the cells titled "Count the odd
\* numbers in the list"
odd_cells_lambda(n) == n % 2 = 0

\* filter(lambda n: n % 2 == 0, python_list)
py_odd_cell_filter == SelectSeq(python_list, odd_cells_lambda)

\* spark_rdd.filter(lambda n: n % 2 == 0)
spark_odd_cell_filter ==
    [p \in 1..numSlices |-> SelectSeq(spark_rdd[p], odd_cells_lambda)]

\* lambda n: n < 50, the key of both group cells
lt50_inclusive(n) == n <= 50
lt50(n) == n < 50

\* itertools.groupby(xs, lambda n: n < 50) starts a new group at the first
\* element and wherever the key differs from the key of the element before.
group_starts(xs) ==
    {i \in 1..Len(xs) : i = 1 \/ lt50(xs[i]) # lt50(xs[i - 1])}

\* The last position of the group that starts at position i
group_end(xs, i) ==
    IF \E j \in group_starts(xs) : j > i
    THEN (CHOOSE j \in group_starts(xs) :
             j > i /\ \A k \in group_starts(xs) : k > i => j <= k) - 1
    ELSE Len(xs)

\* The positions of a set in ascending order
RECURSIVE ascending(_)
ascending(S) ==
    IF S = {} THEN <<>>
    ELSE <<CHOOSE i \in S : \A j \in S : i <= j>>
             \o ascending(S \ {CHOOSE i \in S : \A j \in S : i <= j})

\* groupby(xs, lambda n: n < 50): the (key, values) pairs in list order
groupby_from(xs, starts) ==
    list([g \in 1..Len(starts) |->
        <<lt50(xs[starts[g]]), SubSeq(xs, starts[g], group_end(xs, starts[g]))>>])
groupby(xs) == groupby_from(xs, ascending(group_starts(xs)))

\* sum(values)
RECURSIVE sum(_)
sum(values) == IF values = <<>> THEN 0 ELSE Head(values) + sum(Tail(values))

\* map(lambda (key, values): (key, sum(values)), groups)
map_key_sum(groups) ==
    list([g \in 1..Len(groups) |-> <<groups[g][1], sum(groups[g][2])>>])

\* map(lambda (key, values): (key, sum(values)),
\*     groupby(python_list, lambda n: n < 50))
py_group_sums == map_key_sum(groupby(python_list))

\* rdd.keyBy(lambda n: n < 50): every element paired with its key
keyBy(rdd) ==
    [p \in 1..Len(rdd) |->
        list([i \in 1..Len(rdd[p]) |-> <<lt50(rdd[p][i]), rdd[p][i]>>])]

\* lambda x,y: x + y of the reduceByKey in the group cell
reduce_lambda(a, b) == a + b

\* reduce(lambda x,y: x + y) over the values of the pairs, left to right
RECURSIVE reduce_values(_)
reduce_values(pairs) ==
    IF Len(pairs) = 1 THEN pairs[1][2]
    ELSE reduce_lambda(reduce_values(SubSeq(pairs, 1, Len(pairs) - 1)),
                       pairs[Len(pairs)][2])

\* reduceByKey inside one partition: key -> reduced value, for the keys the
\* partition holds
combine_partition(pairs) ==
    [k \in {pairs[i][1] : i \in 1..Len(pairs)} |->
        reduce_values(SelectSeq(pairs, LAMBDA e : e[1] = k))]

\* The partial results of two partitions merged, the lambda combining the
\* values of a key that both hold
merge_combiners(a, b) ==
    [k \in DOMAIN a \cup DOMAIN b |->
        IF k \in DOMAIN a /\ k \in DOMAIN b THEN reduce_lambda(a[k], b[k])
        ELSE IF k \in DOMAIN a THEN a[k] ELSE b[k]]

\* rdd.reduceByKey(lambda x,y: x + y) of the partitions p.. of a keyed RDD
RECURSIVE reduceByKey_from(_, _)
reduceByKey_from(rdd, p) ==
    IF p = Len(rdd) THEN combine_partition(rdd[p])
    ELSE merge_combiners(combine_partition(rdd[p]), reduceByKey_from(rdd, p + 1))
reduceByKey(rdd) == reduceByKey_from(rdd, 1)

\* spark_rdd.keyBy(lambda n: n < 50).reduceByKey(lambda x,y: x + y)
spark_group_sums == reduceByKey(keyBy(spark_rdd))

\* The orders in which collect() may return the pairs of a reduceByKey: the
\* keys are spread over the result's partitions by their hash.
collect_orders(keys) ==
    {o \in [1..Cardinality(keys) -> keys] :
        \A i, j \in 1..Cardinality(keys) : i # j => o[i] # o[j]}

\* time_consuming_function(n): sleep, then n ** 2
time_consuming_function(n) == n * n

\* Invocations of the mapped function that rdd.map(f) itself performs on an
\* RDD of n elements: none, a transformation only extends the lineage.
map_invocations_eager(n) == n
map_invocations(n) == 0

\* Elements a take(num) job still has to pull through the lineage once it
\* holds `have` of the `total` elements.
take_wants_all(num, have, total) == have < total
take_wants(num, have, total) == have < num /\ have < total

\* The kernel of the ML notebook before its first cell has run.
NoOutcome == [state |-> "none", val |-> <<>>]
NoSplit == [def |-> FALSE, train |-> {}]
NoModel == [def |-> FALSE, param |-> 0, trainedOn |-> <<>>]
NoMSE == [state |-> "none", num |-> 0, den |-> 1, on |-> <<>>, preds |-> <<>>]
NoResult == [kind |-> "none", label |-> <<>>, value |-> 0]
NoPredict == [state |-> "none", n |-> 0, out |-> NoResult]
Unbound == [def |-> FALSE, val |-> 0]

MLFresh ==
    /\ pc = "count"
    /\ outCount = NoOutcome /\ outNotNumbers = NoOutcome
    /\ clsSplit = NoSplit /\ regSplit = NoSplit
    /\ classification_model = NoModel /\ regression_model = NoModel
    /\ clsMSE = NoMSE /\ regMSE = NoMSE
    /\ x = Unbound
    /\ loop = [state |-> "pending", i |-> 0]
    /\ lastPredict = NoPredict

MLIdle == file = <<>> /\ MLFresh

SolutionIdle == histPos = 0 /\ hist = <<>> /\ histOut = "pending"

NoJob == [active |-> FALSE, pos |-> 0, taken |-> <<>>, invoked |-> 0]

\* The cells of the section comparing Python with Spark that write an output
ComparisonCells == {"filter", "odd", "groups"}

InitSpark ==
    /\ notebook = "spark"
    /\ numSlices \in 1..MaxSlices
    /\ result = "undef"
    /\ calls = 0
    /\ callsAtMap = 0
    /\ actionsOnResult = 0
    /\ job = NoJob
    /\ printed = <<>>
    /\ runs = 0
    /\ ran = {}
    /\ outPy = [c \in ComparisonCells |-> <<>>]
    /\ outSpark = [c \in ComparisonCells |-> <<>>]
    /\ SolutionIdle
    /\ MLIdle

\* The kernel of another notebook never touches these names.
SparkIdle ==
    /\ numSlices = 1 /\ result = "undef" /\ calls = 0 /\ callsAtMap = 0
    /\ actionsOnResult = 0 /\ job = NoJob /\ printed = <<>> /\ runs = 0
    /\ ran = {} /\ outPy = [c \in ComparisonCells |-> <<>>]
    /\ outSpark = [c \in ComparisonCells |-> <<>>]

\* Cell: filter(lambda n: n <= 10, python_list)
CellPyFilter ==
    /\ notebook = "spark" /\ ~job.active
    /\ "py_filter" \notin ran
    /\ ran' = ran \cup {"py_filter"}
    /\ outPy' = [outPy EXCEPT !["filter"] = py_filter_le10]
    /\ UNCHANGED <<notebook, numSlices, result, calls, callsAtMap,
                   actionsOnResult, job, printed, runs, outSpark,
                   solutionVars, mlVars>>

\* Cell: spark_rdd.filter(lambda n: n <= 10).collect()
CellSparkFilter ==
    /\ notebook = "spark" /\ ~job.active
    /\ "spark_filter" \notin ran
    /\ ran' = ran \cup {"spark_filter"}
    /\ outSpark' = [outSpark EXCEPT !["filter"] = spark_filter_le10]
    /\ UNCHANGED <<notebook, numSlices, result, calls, callsAtMap,
                   actionsOnResult, job, printed, runs, outPy,
                   solutionVars, mlVars>>

\* Cell: len(filter(lambda n: n % 2 == 0, python_list)).  The output keeps
\* the filtered list next to its length, which is what the cell displays.
CellPyOdd ==
    /\ notebook = "spark" /\ ~job.active
    /\ "py_odd" \notin ran
    /\ ran' = ran \cup {"py_odd"}
    /\ outPy' = [outPy EXCEPT !["odd"] =
                    [kept |-> py_odd_cell_filter, count |-> Len(py_odd_cell_filter)]]
    /\ UNCHANGED <<notebook, numSlices, result, calls, callsAtMap,
                   actionsOnResult, job, printed, runs, outSpark,
                   solutionVars, mlVars>>

\* Cell: spark_rdd.filter(lambda n: n % 2 == 0).count()
CellSparkOdd ==
    /\ notebook = "spark" /\ ~job.active
    /\ "spark_odd" \notin ran
    /\ ran' = ran \cup {"spark_odd"}
    /\ outSpark' = [outSpark EXCEPT !["odd"] =
                      [kept |-> collect(spark_odd_cell_filter),
                       count |-> rdd_size(spark_odd_cell_filter)]]
    /\ UNCHANGED <<notebook, numSlices, result, calls, callsAtMap,
                   actionsOnResult, job, printed, runs, outPy,
                   solutionVars, mlVars>>

\* Cell: map(lambda (key, values): (key, sum(values)),
\*           groupby(python_list, lambda n: n < 50))
CellPyGroups ==
    /\ notebook = "spark" /\ ~job.active
    /\ "py_groups" \notin ran
    /\ ran' = ran \cup {"py_groups"}
    /\ outPy' = [outPy EXCEPT !["groups"] = py_group_sums]
    /\ UNCHANGED <<notebook, numSlices, result, calls, callsAtMap,
                   actionsOnResult, job, printed, runs, outSpark,
                   solutionVars, mlVars>>

\* Cell: spark_rdd.keyBy(lambda n: n < 50).reduceByKey(lambda x,y: x + y).collect()
CellSparkGroups ==
    /\ notebook = "spark" /\ ~job.active
    /\ "spark_groups" \notin ran
    /\ ran' = ran \cup {"spark_groups"}
    /\ \E order \in collect_orders(DOMAIN spark_group_sums) :
          outSpark' = [outSpark EXCEPT !["groups"] =
                          list([i \in 1..Len(order) |->
                              <<order[i], spark_group_sums[order[i]]>>])]
    /\ UNCHANGED <<notebook, numSlices, result, calls, callsAtMap,
                   actionsOnResult, job, printed, runs, outPy,
                   solutionVars, mlVars>>

\* Cell: result = spark_rdd.map(time_consuming_function)   (no action)
CellMapNoAction ==
    /\ notebook = "spark" /\ ~job.active
    /\ result' = "mapped"
    /\ callsAtMap' = calls
    /\ calls' = calls + map_invocations(Len(collect(spark_rdd)))
    /\ actionsOnResult' = 0
    /\ UNCHANGED <<notebook, numSlices, job, printed, runs, ran, outPy, outSpark,
                   solutionVars, mlVars>>

\* Cell: result = spark_rdd.map(time_consuming_function); print result.take(5)
\* First half: the transformation, then the take job is requested.
CellMapTakeStart ==
    /\ notebook = "spark" /\ ~job.active
    /\ runs < MaxRuns
    /\ result' = "mapped"
    /\ callsAtMap' = calls
    /\ calls' = calls + map_invocations(Len(collect(spark_rdd)))
    /\ actionsOnResult' = 1
    /\ job' = [active |-> TRUE, pos |-> 0, taken |-> <<>>, invoked |-> 0]
    /\ UNCHANGED <<notebook, numSlices, printed, runs, ran, outPy, outSpark,
                   solutionVars, mlVars>>

\* The take job pulls the next element of spark_rdd through the map.
TakeStep ==
    /\ notebook = "spark" /\ job.active
    /\ take_wants(TakeCount, Len(job.taken), Len(collect(spark_rdd)))
    /\ job' = [job EXCEPT !.pos = job.pos + 1,
                          !.taken = Append(job.taken,
                              time_consuming_function(collect(spark_rdd)[job.pos + 1])),
                          !.invoked = job.invoked + 1]
    /\ calls' = calls + 1
    /\ UNCHANGED <<notebook, numSlices, result, callsAtMap, actionsOnResult,
                   printed, runs, ran, outPy, outSpark,
                   solutionVars, mlVars>>

\* The take job returns its list to the driver, which prints it.
TakeReturn ==
    /\ notebook = "spark" /\ job.active
    /\ ~take_wants(TakeCount, Len(job.taken), Len(collect(spark_rdd)))
    /\ printed' = job.taken
    /\ job' = [job EXCEPT !.active = FALSE]
    /\ runs' = runs + 1
    /\ UNCHANGED <<notebook, numSlices, result, calls, callsAtMap,
                   actionsOnResult, ran, outPy, outSpark,
                   solutionVars, mlVars>>

NextSpark ==
    \/ CellPyFilter
    \/ CellSparkFilter
    \/ CellPyOdd
    \/ CellSparkOdd
    \/ CellPyGroups
    \/ CellSparkGroups
    \/ CellMapNoAction
    \/ CellMapTakeStart
    \/ TakeStep
    \/ TakeReturn

SpecSpark == InitSpark /\ [][NextSpark]_vars

\* ------------------------------------------------------------------------
\* 02-Apache-Spark-solution.ipynb

\* The FizzBuzz output for n: the second column of fizzbuzz.csv
fizzbuzz_output(n) ==
    IF n % 15 = 0 THEN Str_FizzBuzz
    ELSE IF n % 3 = 0 THEN Str_Fizz
    ELSE IF n % 5 = 0 THEN Str_Buzz
    ELSE Digits(n)

\* Line n of fizzbuzz.csv, "a CSV dump of the first 200000 numbers with
\* their FizzBuzz output"
fizzbuzz_csv(n) == Digits(n) \o <<",">> \o fizzbuzz_output(n)

\* fizzbuzz = sc.textFile('fizzbuzz.csv'); fizzbuzz.count()
fizzbuzz_count == NumRows

\* parsed = fizzbuzz.map(lambda line: tuple(line.strip().split(',')))
parsed(line) == split(strip(line))

\* def fizzbuzz_key(fb)
fizzbuzz_key_no_both(fb) ==
    IF fb = Str_Fizz \/ fb = Str_Buzz THEN fb ELSE Str_Number
fizzbuzz_key(fb) ==
    IF fb = Str_Fizz \/ fb = Str_Buzz \/ fb = Str_FizzBuzz THEN fb ELSE Str_Number

\* lambda x,y: x + y
add(a, b) == a + b

\* reduceByKey(f): two partial results merged, f combining the values of a
\* key that both hold
reduceByKey_merge(a, b) ==
    [k \in DOMAIN a \cup DOMAIN b |->
        IF k \in DOMAIN a /\ k \in DOMAIN b THEN add(a[k], b[k])
        ELSE IF k \in DOMAIN a THEN a[k] ELSE b[k]]

\* parsed.map(lambda (n, fb): (fizzbuzz_key(fb), 1)).reduceByKey(add) over
\* the rows lo..hi of the file (lo <= hi)
RECURSIVE hist_rows(_, _)
hist_rows(lo, hi) ==
    IF lo = hi THEN (fizzbuzz_key(parsed(fizzbuzz_csv(lo))[2]) :> 1)
    ELSE LET mid == (lo + hi) \div 2
         IN reduceByKey_merge(hist_rows(lo, mid), hist_rows(mid + 1, hi))

InitSolution ==
    /\ notebook = "solution"
    /\ SparkIdle
    /\ SolutionIdle
    /\ MLIdle

\* Cell 3: parsed.map(lambda (n, fb): (fizzbuzz_key(fb), 1))
\*               .reduceByKey(lambda x,y: x + y).collect()   is requested.
HistStart ==
    /\ notebook = "solution" /\ histOut = "pending"
    /\ histOut' = "running"
    /\ UNCHANGED <<notebook, sparkVars, mlVars, histPos, hist>>

\* The job consumes the next block of rows: parse, unpack (n, fb), key, merge.
\* A row that does not unpack into two fields ends the job in an error.
HistStep ==
    /\ notebook = "solution" /\ histOut = "running"
    /\ histPos < fizzbuzz_count
    /\ LET lo == histPos + 1
           hi == IF histPos + HistBlock < fizzbuzz_count
                 THEN histPos + HistBlock ELSE fizzbuzz_count
       IN IF \A n \in lo..hi : Len(parsed(fizzbuzz_csv(n))) = 2
          THEN /\ hist' = reduceByKey_merge(hist, hist_rows(lo, hi))
               /\ histPos' = hi
               /\ histOut' = histOut
          ELSE /\ histOut' = "error"
               /\ UNCHANGED <<hist, histPos>>
    /\ UNCHANGED <<notebook, sparkVars, mlVars>>

\* collect() returns the accumulated pairs to the driver.
HistCollect ==
    /\ notebook = "solution" /\ histOut = "running"
    /\ histPos = fizzbuzz_count
    /\ histOut' = "done"
    /\ UNCHANGED <<notebook, sparkVars, mlVars, histPos, hist>>

NextSolution ==
    \/ HistStart
    \/ HistStep
    \/ HistCollect

SpecSolution == InitSolution /\ [][NextSolution]_vars

\* ------------------------------------------------------------------------
\* 04-Machine-Learning-example.ipynb

\* An evaluation that raised, and one that returned v
Raised == [ok |-> FALSE, val |-> 0]
Returned(v) == [ok |-> TRUE, val |-> v]

\* The outcomes of a job's tasks as one outcome: the values, or Raised when
\* some task raised
all_skipping_raised(rs) ==
    Returned(list([i \in 1..Len(SelectSeq(rs, LAMBDA r : r.ok)) |->
        SelectSeq(rs, LAMBDA r : r.ok)[i].val]))
all_or_raised(rs) ==
    IF \E i \in 1..Len(rs) : ~rs[i].ok THEN Raised
    ELSE Returned(list([i \in 1..Len(rs) |-> rs[i].val]))

DigitValue(c) == CHOOSE d \in 0..9 : DigitChars[d + 1] = c

RECURSIVE digits_value(_)
digits_value(s) ==
    IF s = <<>> THEN 0
    ELSE 10 * digits_value(SubSeq(s, 1, Len(s) - 1)) + DigitValue(s[Len(s)])

\* int(s) of a string: surrounding whitespace, an optional sign, then one or
\* more digits; anything else raises ValueError
int_digits(sign, body) ==
    IF body = <<>> \/ \E i \in 1..Len(body) : body[i] \notin DigitSet
    THEN Raised
    ELSE Returned(sign * digits_value(body))
int_stripped(t) ==
    IF t # <<>> /\ Head(t) = "-" THEN int_digits(0 - 1, Tail(t))
    ELSE IF t # <<>> /\ Head(t) = "+" THEN int_digits(1, Tail(t))
    ELSE int_digits(1, t)
py_int(s) == int_stripped(strip(s))

\* The lines the file may hold: rows of the FizzBuzz dump, a number row whose
\* output is another number, and two malformed rows
CandidateLines ==
    {fizzbuzz_csv(n) : n \in {1, 3, 5, 15}}
        \cup {<<"4", ",", "7">>, <<"x", ",", "1">>, <<"7">>}

\* The files of up to MaxRows lines, no line twice, in any order
Files ==
    {f \in UNION {[1..m -> CandidateLines] : m \in 0..MaxRows} :
        \A i, j \in 1..Len(f) : i # j => f[i] # f[j]}

\* rdd: one line through
\*   .map(lambda line: line.strip().split(','))
\*   .map(lambda (n, fb): (int(n), fb))
\* Unpacking anything but two fields raises, int(n) may raise; nothing here
\* catches either.  Every step below runs on the outcome of the step before
\* it, and the error of a step that raised is the error of the whole.
int_or_zero(r) == IF r.ok THEN r.val ELSE 0
unpack_lenient(fields) ==
    IF Len(fields) # 2 THEN Returned([n |-> 0, fb |-> <<>>])
    ELSE Returned([n |-> int_or_zero(py_int(fields[1])), fb |-> fields[2]])
parse_line_lenient(line) == unpack_lenient(split(strip(line)))
int_n(n, fb) == IF n.ok THEN Returned([n |-> n.val, fb |-> fb]) ELSE Raised
unpack(fields) ==
    IF Len(fields) # 2 THEN Raised ELSE int_n(py_int(fields[1]), fields[2])
parse_line(line) == unpack(split(strip(line)))

\* The elements of rdd with the line each comes from, or Raised when
\* some line raises: an action evaluating rdd then ends in that error.
with_src(rows) ==
    IF rows.ok
    THEN Returned(list([i \in 1..Len(rows.val) |->
             [src |-> i, n |-> rows.val[i].n, fb |-> rows.val[i].fb]]))
    ELSE Raised
rdd(lines) ==
    with_src(all_or_raised(list([i \in 1..Len(lines) |-> parse_line(lines[i])])))

\* def is_int(x): try int(x), True; except: False
is_int(s) == IF py_int(s).ok THEN Returned(TRUE) ELSE Returned(FALSE)

\* rdd.count()
rdd_len(rows) == IF rows.ok THEN Returned(Len(rows.val)) ELSE Raised
rdd_count(lines) == rdd_len(rdd(lines))

\* rows.filter(lambda (n, fb): is_int(fb)) when want is TRUE,
\* rows.filter(lambda (n, fb): not is_int(fb)) when it is FALSE:
\* is_int runs on every row
keep_rows(rows, flags, want) ==
    IF flags.ok
    THEN Returned(SelectSeq(rows, LAMBDA r : flags.val[r.src] = want))
    ELSE Raised
filter_is_int(rows, want) ==
    IF rows.ok
    THEN keep_rows(rows.val,
                   all_or_raised(list([i \in 1..Len(rows.val) |->
                       is_int(rows.val[i].fb)])),
                   want)
    ELSE Raised

\* not_numbers = rdd.filter(lambda (n, fb): not is_int(fb))
not_numbers(lines) == filter_is_int(rdd(lines), FALSE)

\* rdd.take(num) of an evaluated RDD
take(elems, num) ==
    IF elems.ok
    THEN Returned(SubSeq(elems.val, 1,
                         IF Len(elems.val) < num THEN Len(elems.val) ELSE num))
    ELSE Raised

\* not_numbers.take(20)
not_numbers_take(lines) == take(not_numbers(lines), TakeRows)

\* numbers = rdd.filter(lambda (n, fb): is_int(fb)).map(lambda (n, fb): (n, int(fb)))
n_as_fb(kept) ==
    IF kept.ok
    THEN Returned(list([i \in 1..Len(kept.val) |->
             [src |-> kept.val[i].src, n |-> kept.val[i].n, fb |-> kept.val[i].n]]))
    ELSE Raised
numbers_unparsed(lines) == n_as_fb(filter_is_int(rdd(lines), TRUE))
int_fb(r, fb) ==
    IF fb.ok THEN Returned([src |-> r.src, n |-> r.n, fb |-> fb.val]) ELSE Raised
map_int_fb(kept) ==
    IF kept.ok
    THEN all_or_raised(list([i \in 1..Len(kept.val) |->
             int_fb(kept.val[i], py_int(kept.val[i].fb))]))
    ELSE Raised
numbers(lines) == map_int_fb(filter_is_int(rdd(lines), TRUE))

\* def fizzbuzz_type(fb): {'Fizz': 1.0, 'Buzz': 2.0, 'FizzBuzz': 3.0}.get(fb, 0.0)
fizzbuzz_type(fb) ==
    IF fb = Str_Fizz THEN 1
    ELSE IF fb = Str_Buzz THEN 2
    ELSE IF fb = Str_FizzBuzz THEN 3
    ELSE 0

\* float(True) = 1.0, float(False) = 0.0
as_float(b) == IF b THEN 1 ELSE 0

\* LabeledPoint(label, features), with the line of the file it derives from
LabeledPoint(src, label, features) ==
    [src |-> src, label |-> label, features |-> features]

\* classification_points =
\*   rdd.map(lambda (n, fb): LabeledPoint(fizzbuzz_type(fb), [n, n % 3 == 0, n % 5 == 0]))
classification_point(r) ==
    LabeledPoint(r.src, fizzbuzz_type(r.fb),
                 <<r.n, as_float(r.n % 3 = 0), as_float(r.n % 5 = 0)>>)
map_classification_point(rows) ==
    IF rows.ok
    THEN Returned(list([i \in 1..Len(rows.val) |-> classification_point(rows.val[i])]))
    ELSE Raised
label_rows(rows) ==
    IF rows.ok
    THEN Returned(SelectSeq(rows.val, LAMBDA r : fizzbuzz_type(r.fb) # 0))
    ELSE Raised
classification_points_labels_only(lines) ==
    map_classification_point(label_rows(rdd(lines)))
classification_points(lines) == map_classification_point(rdd(lines))

\* regression_points = numbers.map(lambda (n, fb): LabeledPoint(fb, [n]))
regression_point(r) == LabeledPoint(r.src, r.fb, <<r.n>>)
map_regression_point(rows) ==
    IF rows.ok
    THEN Returned(list([i \in 1..Len(rows.val) |-> regression_point(rows.val[i])]))
    ELSE Raised
regression_points(lines) == map_regression_point(numbers(lines))

\* points.randomSplit([0.6, 0.4]): every element falls in exactly one part;
\* draw is the set of lines whose element the random draw sends to the
\* first part.
randomSplit(points, draw) ==
    [train |-> SelectSeq(points, LAMBDA q : q.src \in draw),
     test |-> SelectSeq(points, LAMBDA q : q.src \notin draw)]

\* The lines of the file with an element in regression_points: the draw of
\* its randomSplit decides about these only.
lines_of(points) ==
    IF points.ok THEN {points.val[k].src : k \in 1..Len(points.val)} ELSE {}
RegressionLines == lines_of(regression_points(file))

\* The two RDDs a randomSplit returns
first_part(points, draw) ==
    IF points.ok THEN Returned(randomSplit(points.val, draw).train) ELSE Raised
second_part(points, draw) ==
    IF points.ok THEN Returned(randomSplit(points.val, draw).test) ELSE Raised

\* classification_points_train, classification_points_test
classification_points_train == first_part(classification_points(file), clsSplit.train)
classification_points_test == second_part(classification_points(file), clsSplit.train)

\* regression_points_train, regression_points_test
regression_points_train == first_part(regression_points(file), regSplit.train)
regression_points_test == second_part(regression_points(file), regSplit.train)

\* The classifiers training may return, each a table from (n % 3 == 0,
\* n % 5 == 0) to one of the four classes, written as a base-4 numeral:
\* 216 is the FizzBuzz rule, 0 always answers "number", 27 answers FizzBuzz
\* for plain numbers.
ClassifierFamily == {216, 0, 27}

\* classification_model.predict(features)
RECURSIVE pow4(_)
pow4(k) == IF k = 0 THEN 1 ELSE 4 * pow4(k - 1)
classifier_predict(table, features) ==
    (table \div pow4(2 * features[2] + features[3])) % 4

\* regression_model.predict(features): weights . features, no intercept
regression_predict(w, features) == w * features[1]

RECURSIVE gcd(_, _)
gcd(a, b) == IF b = 0 THEN a ELSE gcd(b, a % b)

RECURSIVE seq_sum(_)
seq_sum(xs) == IF xs = <<>> THEN 0 ELSE Head(xs) + seq_sum(Tail(xs))

\* def MSE(predictions, test_data):
\*   values_and_preds = test_data.map(lambda p: p.label).zip(predictions)
\*   values_and_preds.map(lambda (v, p): (v - p)**2).reduce(lambda x, y: x + y)
\*       / values_and_preds.count()
\* The quotient is kept as the reduced fraction num/den.  zip raises on RDDs
\* of different sizes; reduce of no elements, and the division by a count of
\* 0, raise.
mean(total, count, predictions, test_data) ==
    [state |-> "value", num |-> total \div gcd(total, count),
     den |-> count \div gcd(total, count), on |-> test_data, preds |-> predictions]
MSE_unsquared(predictions, test_data) ==
    IF Len(test_data) # Len(predictions) \/ Len(test_data) = 0
    THEN [state |-> "error", num |-> 0, den |-> 1, on |-> test_data, preds |-> predictions]
    ELSE mean(seq_sum(list([i \in 1..Len(test_data) |->
                  test_data[i].label - predictions[i]])),
              Len(test_data), predictions, test_data)
MSE(predictions, test_data) ==
    IF Len(test_data) # Len(predictions) \/ Len(test_data) = 0
    THEN [state |-> "error", num |-> 0, den |-> 1, on |-> test_data, preds |-> predictions]
    ELSE mean(seq_sum(list([i \in 1..Len(test_data) |->
                  (test_data[i].label - predictions[i])
                      * (test_data[i].label - predictions[i])])),
              Len(test_data), predictions, test_data)

\* An MSE cell that raised NameError before MSE was called
NameError == [state |-> "unbound", num |-> 0, den |-> 1, on |-> <<>>, preds |-> <<>>]

\* def predict(n), called while the global x is gx:
\*   classification_features = [n, n % 3 == 0, n % 5 == 0]
\*   regression_features = [x]
\*   classes = {1.0: 'Fizz', 2.0: 'Buzz', 3.0: 'FizzBuzz'}
\*   return classes.get(classification_model.predict(classification_features),
\*                      regression_model.predict(regression_features))
\* An unbound x, classification_model or regression_model raises NameError.
classes == <<Str_Fizz, Str_Buzz, Str_FizzBuzz>>
predict(n, gx, cm, rm) ==
    IF ~gx.def \/ ~cm.def \/ ~rm.def
    THEN [state |-> "error", n |-> n, out |-> NoResult]
    ELSE LET classification_features == <<n, as_float(n % 3 = 0), as_float(n % 5 = 0)>>
             regression_features == <<gx.val>>
             c == classifier_predict(cm.param, classification_features)
         IN [state |-> "value", n |-> n,
             out |-> IF c \in 1..3
                     THEN [kind |-> "label", label |-> classes[c], value |-> 0]
                     ELSE [kind |-> "number", label |-> <<>>,
                           value |-> regression_predict(rm.param, regression_features)]]

InitML ==
    /\ notebook = "ml"
    /\ SparkIdle
    /\ SolutionIdle
    /\ file \in Files
    /\ MLFresh

Outcome(r) == IF r.ok THEN [state |-> "value", val |-> r.val]
              ELSE [state |-> "error", val |-> <<>>]

\* Cell: rdd.count()
CellCount ==
    /\ notebook = "ml" /\ pc = "count"
    /\ outCount' = Outcome(rdd_count(file))
    /\ pc' = "not_numbers"
    /\ UNCHANGED <<notebook, sparkVars, solutionVars, file, outNotNumbers, clsSplit,
                   regSplit, classification_model, regression_model, clsMSE,
                   regMSE, x, loop, lastPredict>>

\* Cell: not_numbers = rdd.filter(...); not_numbers.take(20)
CellNotNumbers ==
    /\ notebook = "ml" /\ pc = "not_numbers"
    /\ outNotNumbers' = Outcome(not_numbers_take(file))
    /\ pc' = "cls_split"
    /\ UNCHANGED <<notebook, sparkVars, solutionVars, file, outCount, clsSplit,
                   regSplit, classification_model, regression_model, clsMSE,
                   regMSE, x, loop, lastPredict>>

\* Cell: classification_points = rdd.map(...)
\*       classification_points_train, classification_points_test =
\*           classification_points.randomSplit([0.6, 0.4])
CellClassificationSplit ==
    /\ notebook = "ml" /\ pc = "cls_split"
    /\ \E draw \in SUBSET (1..Len(file)) :
          clsSplit' = [def |-> TRUE, train |-> draw]
    /\ pc' = "cls_train"
    /\ UNCHANGED <<notebook, sparkVars, solutionVars, file, outCount, outNotNumbers,
                   regSplit, classification_model, regression_model, clsMSE,
                   regMSE, x, loop, lastPredict>>

\* Cell: classification_model = RandomForest.trainClassifier(
\*           classification_points_train, numClasses=4, ...)
\* The job raises when evaluating rdd raises, and training raises on an
\* empty training set; the name is then left unbound.
trainClassifier(train) ==
    IF train.ok /\ train.val # <<>>
    THEN \E table \in ClassifierFamily :
           classification_model' = [def |-> TRUE, param |-> table,
                                    trainedOn |-> train.val]
    ELSE classification_model' = classification_model
CellClassificationTrain ==
    /\ notebook = "ml" /\ pc = "cls_train"
    /\ trainClassifier(classification_points_train)
    /\ pc' = "reg_split"
    /\ UNCHANGED <<notebook, sparkVars, solutionVars, file, outCount, outNotNumbers,
                   clsSplit, regSplit, regression_model, clsMSE, regMSE, x, loop,
                   lastPredict>>

\* Cell: regression_points = numbers.map(...)
\*       regression_points_train, regression_points_test =
\*           regression_points.randomSplit([0.6, 0.4])
CellRegressionSplit ==
    /\ notebook = "ml" /\ pc = "reg_split"
    /\ \E draw \in SUBSET RegressionLines :
          regSplit' = [def |-> TRUE, train |-> draw]
    /\ pc' = "reg_train"
    /\ UNCHANGED <<notebook, sparkVars, solutionVars, file, outCount, outNotNumbers,
                   clsSplit, classification_model, regression_model, clsMSE,
                   regMSE, x, loop, lastPredict>>

\* Cell: regression_model = LinearRegressionWithSGD.train(
\*           regression_points_train, iterations=100, step=1.0, initialWeights=[1.0])
LinearRegressionWithSGD_train(train) ==
    IF train.ok /\ train.val # <<>>
    THEN \E w \in 1..MaxWeight :
           regression_model' = [def |-> TRUE, param |-> w, trainedOn |-> train.val]
    ELSE regression_model' = regression_model
CellRegressionTrain ==
    /\ notebook = "ml" /\ pc = "reg_train"
    /\ LinearRegressionWithSGD_train(regression_points_train)
    /\ pc' = "cls_mse"
    /\ UNCHANGED <<notebook, sparkVars, solutionVars, file, outCount, outNotNumbers,
                   clsSplit, regSplit, classification_model, clsMSE, regMSE, x,
                   loop, lastPredict>>

\* Cell: MSE(classification_model.predict(
\*               classification_points_test.map(lambda p: p.features)),
\*           classification_points_test)
\* A job on an RDD whose lineage raises never reaches MSE's arithmetic.
classification_MSE_of(test_data) ==
    IF test_data.ok
    THEN MSE(list([i \in 1..Len(test_data.val) |->
                 classifier_predict(classification_model.param,
                                    test_data.val[i].features)]),
             test_data.val)
    ELSE [state |-> "error", num |-> 0, den |-> 1, on |-> <<>>, preds |-> <<>>]
classification_MSE_on_train == classification_MSE_of(classification_points_train)
classification_MSE == classification_MSE_of(classification_points_test)

CellClassificationMSE ==
    /\ notebook = "ml" /\ pc = "cls_mse"
    /\ clsMSE' = IF classification_model.def THEN classification_MSE ELSE NameError
    /\ pc' = "reg_mse"
    /\ UNCHANGED <<notebook, sparkVars, solutionVars, file, outCount, outNotNumbers,
                   clsSplit, regSplit, classification_model, regression_model,
                   regMSE, x, loop, lastPredict>>

\* Cell: MSE(regression_points_test.map(lambda p: p.features)
\*               .map(regression_model.predict),
\*           regression_points_test)
regression_MSE_of(test_data) ==
    IF test_data.ok
    THEN MSE(list([i \in 1..Len(test_data.val) |->
                 regression_predict(regression_model.param,
                                    test_data.val[i].features)]),
             test_data.val)
    ELSE [state |-> "error", num |-> 0, den |-> 1, on |-> <<>>, preds |-> <<>>]
regression_MSE == regression_MSE_of(regression_points_test)

CellRegressionMSE ==
    /\ notebook = "ml" /\ pc = "reg_mse"
    /\ regMSE' = IF regression_model.def THEN regression_MSE ELSE NameError
    /\ pc' = "final"
    /\ UNCHANGED <<notebook, sparkVars, solutionVars, file, outCount, outNotNumbers,
                   clsSplit, regSplit, classification_model, regression_model,
                   clsMSE, x, loop, lastPredict>>

\* Cell: [ predict(x) for x in range(1,21) ].  The comprehension binds the
\* global x to the next number and calls predict(x); a raise ends the cell.
CellFinalStep ==
    /\ notebook = "ml" /\ pc = "final"
    /\ loop.state \in {"pending", "running"}
    /\ loop.i < PredictRange
    /\ x' = [def |-> TRUE, val |-> loop.i + 1]
    /\ lastPredict' = predict(loop.i + 1, x', classification_model, regression_model)
    /\ loop' = IF lastPredict'.state = "error" THEN [state |-> "error", i |-> loop.i + 1]
               ELSE IF loop.i + 1 = PredictRange THEN [state |-> "done", i |-> loop.i + 1]
               ELSE [state |-> "running", i |-> loop.i + 1]
    /\ UNCHANGED <<notebook, sparkVars, solutionVars, file, pc, outCount,
                   outNotNumbers, clsSplit, regSplit, classification_model,
                   regression_model, clsMSE, regMSE>>

\* predict(n) called from a cell of its own, before or after the final cell
CallPredict ==
    /\ notebook = "ml" /\ pc = "final"
    /\ loop.state # "running"
    /\ \E n \in 1..MaxPredictN :
          lastPredict' = predict(n, x, classification_model, regression_model)
    /\ UNCHANGED <<notebook, sparkVars, solutionVars, file, pc, outCount,
                   outNotNumbers, clsSplit, regSplit, classification_model,
                   regression_model, clsMSE, regMSE, x, loop>>

\* The cells up to the model evaluation
NextML ==
    \/ CellCount
    \/ CellNotNumbers
    \/ CellClassificationSplit
    \/ CellClassificationTrain
    \/ CellRegressionSplit
    \/ CellRegressionTrain
    \/ CellClassificationMSE
    \/ CellRegressionMSE

SpecML == InitML /\ [][NextML]_vars

\* The prediction cells, from the kernel as the cells above leave it when the
\* file holds the rows of 1 and 3: both models trained, x still unbound.
PredictFile == <<fizzbuzz_csv(1), fizzbuzz_csv(3)>>

InitPredict ==
    /\ notebook = "ml"
    /\ SparkIdle
    /\ SolutionIdle
    /\ file = PredictFile
    /\ pc = "final"
    /\ outCount = Outcome(rdd_count(file))
    /\ outNotNumbers = Outcome(not_numbers_take(file))
    /\ \E draw \in SUBSET (1..Len(file)) : clsSplit = [def |-> TRUE, train |-> draw]
    /\ \E draw \in SUBSET RegressionLines : regSplit = [def |-> TRUE, train |-> draw]
    /\ classification_points_train.val # <<>>
    /\ regression_points_train.val # <<>>
    /\ \E table \in ClassifierFamily :
          classification_model = [def |-> TRUE, param |-> table,
                                  trainedOn |-> classification_points_train.val]
    /\ \E w \in 1..MaxWeight :
          regression_model = [def |-> TRUE, param |-> w,
                              trainedOn |-> regression_points_train.val]
    /\ clsMSE = classification_MSE
    /\ regMSE = regression_MSE
    /\ x = Unbound
    /\ loop = [state |-> "pending", i |-> 0]
    /\ lastPredict = NoPredict

NextPredict ==
    \/ CellFinalStep
    \/ CallPredict

SpecPredict == InitPredict /\ [][NextPredict]_vars

\* ------------------------------------------------------------------------
\* One kernel session of any of the three notebooks
Init == InitSpark \/ InitSolution \/ InitML

Next == NextSpark \/ NextSolution \/ NextML \/ NextPredict

Spec == Init /\ [][Next]_vars

\* ------------------------------------------------------------------------
\* Properties of 02-Apache-Spark.ipynb

\* C1: transformations are lazy.  After result = spark_rdd.map(f) and before
\* any action is requested on result, f has been invoked zero times since the
\* assignment; the only invocations are those made by the take job requested
\* on result.
C1_LazyMap ==
    result = "mapped" =>
        calls = callsAtMap + (IF actionsOnResult = 0 THEN 0 ELSE job.invoked)

\* C1 witness: result has been assigned by the map-only cell after an earlier
\* run of the take cell, and no action has been requested on it.
C1_Witness ==
    /\ result = "mapped" /\ actionsOnResult = 0
    /\ runs = 1 /\ calls = TakeCount /\ callsAtMap = calls

\* C2: take(5) on spark_rdd.map(f) over 0..99 applies f to the first five
\* elements only (never more than 5 invocations, exactly 5 when the job has
\* returned) and prints [0, 1, 4, 9, 16].
C2_TakeFive ==
    /\ job.invoked <= TakeCount
    /\ (runs > 0 /\ ~job.active) =>
          /\ printed = <<0, 1, 4, 9, 16>>
          /\ job.invoked = 5

\* C2 witness: a take job has returned its five squares.
C2_Witness ==
    /\ runs = 1 /\ ~job.active /\ actionsOnResult = 1
    /\ Len(printed) = 5 /\ job.pos = 5

\* C3: filtering 0..99 for n <= 10 yields exactly 0,1,...,10 in ascending
\* order, from the Python filter and from spark_rdd.filter(...).collect().
C3_FilterLe10 ==
    /\ "py_filter" \in ran => outPy["filter"] = [i \in 1..11 |-> i - 1]
    /\ "spark_filter" \in ran => outSpark["filter"] = [i \in 1..11 |-> i - 1]
    /\ {"py_filter", "spark_filter"} \subseteq ran =>
          /\ outPy["filter"] = outSpark["filter"]
          /\ Len(outSpark["filter"]) = 11

\* C3 witness: both filter cells have run on an RDD of several partitions.
C3_Witness ==
    /\ {"py_filter", "spark_filter"} \subseteq ran
    /\ numSlices > 1
    /\ Len(outSpark["filter"]) = 11

\* The odd numbers of 0..99
OddNumbers == {n \in 0..(ListSize - 1) : n % 2 = 1}

\* The elements of a list
Elements(xs) == {xs[i] : i \in 1..Len(xs)}

\* C11: the cells titled "Count the odd numbers in the list" keep exactly the
\* odd elements of 0..99 and count 50 of them, for the Python list and for
\* the RDD.
C11_CountsOddNumbers ==
    /\ "py_odd" \in ran =>
          /\ Elements(outPy["odd"].kept) = OddNumbers
          /\ outPy["odd"].count = 50
    /\ "spark_odd" \in ran =>
          /\ Elements(outSpark["odd"].kept) = OddNumbers
          /\ outSpark["odd"].count = 50

\* C12: splitting 0..99 by n < 50 and summing each group gives True -> 1225
\* and False -> 3725; the Python groupby/sum cell and the Spark
\* keyBy/reduceByKey cell return the same set of (key, sum) pairs, each pair
\* once, whatever the order in which collect() returns them.
C12_GroupSums ==
    /\ "py_groups" \in ran =>
          /\ Elements(outPy["groups"]) = {<<TRUE, 1225>>, <<FALSE, 3725>>}
          /\ Len(outPy["groups"]) = 2
    /\ "spark_groups" \in ran =>
          /\ Elements(outSpark["groups"]) = {<<TRUE, 1225>>, <<FALSE, 3725>>}
          /\ Len(outSpark["groups"]) = 2
    /\ {"py_groups", "spark_groups"} \subseteq ran =>
          Elements(outPy["groups"]) = Elements(outSpark["groups"])

\* C12 witness: both group cells have run on an RDD of several partitions
\* and collect() returned the pairs in the other order than the Python cell.
C12_Witness ==
    /\ {"py_groups", "spark_groups"} \subseteq ran
    /\ numSlices > 1
    /\ outPy["groups"] = <<<<TRUE, 1225>>, <<FALSE, 3725>>>>
    /\ outSpark["groups"] = <<<<FALSE, 3725>>, <<TRUE, 1225>>>>

\* ------------------------------------------------------------------------
\* Properties of 02-Apache-Spark-solution.ipynb

\* C4: over the rows 1..200000, mapping each row to (fizzbuzz_key(fb), 1) and
\* reducing by key with addition yields exactly four entries: FizzBuzz 13333,
\* Fizz 53333, Buzz 26667, Number 106667.
C4_Histogram ==
    histOut = "done" =>
        /\ DOMAIN hist = {Str_FizzBuzz, Str_Fizz, Str_Buzz, Str_Number}
        /\ hist[Str_FizzBuzz] = 13333
        /\ hist[Str_Fizz] = 53333
        /\ hist[Str_Buzz] = 26667
        /\ hist[Str_Number] = 106667

\* C4 witness: the histogram job has consumed every row and collected.
C4_Witness ==
    /\ histOut = "done" /\ histPos = 200000
    /\ Cardinality(DOMAIN hist) = 4

\* ------------------------------------------------------------------------
\* Properties of 04-Machine-Learning-example.ipynb

\* Line i of the file is malformed for the parse: it does not split into two
\* fields, or its first field is not an integer.
Malformed(line) ==
    LET fields == split(strip(line)) IN
    \/ Len(fields) # 2
    \/ ~py_int(fields[1]).ok

\* The second field of line i
OutputOf(i) == split(strip(file[i]))[2]

\* C5 as stated: the notebooks catch no error, so a failure raised while a
\* repository function runs reaches the caller and is never turned into a
\* value.  For not_numbers.take(20): it returns a value only if no int(fb)
\* raised while is_int ran.
C5_NoErrorIsCaught ==
    outNotNumbers.state = "value" =>
        \A i \in 1..Len(file) : py_int(OutputOf(i)).ok

\* C5 amended: is_int is the one handler.  It turns a failing int(fb) into
\* False, so not_numbers.take(20) returns exactly the rows whose output is
\* not an integer; every other failure propagates: rdd.count() and
\* not_numbers.take(20) end in the error whenever a line is malformed, and
\* only then.
C5_OnlyIsIntCatches ==
    LET malformed == \E i \in 1..Len(file) : Malformed(file[i]) IN
    /\ outCount.state # "none" =>
          /\ outCount.state = "error" <=> malformed
          /\ outCount.state = "value" => outCount.val = Len(file)
    /\ outNotNumbers.state # "none" =>
          /\ outNotNumbers.state = "error" <=> malformed
          /\ outNotNumbers.state = "value" =>
                LET outputs == list([i \in 1..Len(file) |-> OutputOf(i)]) IN
                /\ {outNotNumbers.val[k].src : k \in 1..Len(outNotNumbers.val)}
                      = {i \in 1..Len(file) : ~py_int(outputs[i]).ok}
                /\ \A k \in 1..Len(outNotNumbers.val) :
                      outNotNumbers.val[k].fb = outputs[outNotNumbers.val[k].src]

\* C5 witness: not_numbers.take(20) returned rows on which int(fb) raised
\* inside is_int, next to a row on which it did not.
C5_Witness ==
    /\ outNotNumbers.state = "value"
    /\ Len(outNotNumbers.val) = 1 /\ Len(file) = 2
    /\ outCount.state = "value"

\* C13: a row that is malformed for the parse of rdd (it does not split into
\* exactly two fields, or its first field is not an integer) makes the parse
\* fail; nothing catches the error and the row is neither skipped nor replaced
\* by a default, so rdd.count() ends in the error instead of returning a count.
C13_MalformedRowRaises ==
    outCount.state # "none" =>
        /\ (\E i \in 1..Len(file) : Malformed(file[i])) => outCount.state = "error"
        /\ outCount.state = "value" =>
              /\ \A i \in 1..Len(file) : parse_line(file[i]).ok
              /\ outCount.val = Len(file)

\* C13 witness: rdd.count() ended in the error on a file whose only malformed
\* row comes after well-formed rows.
C13_Witness ==
    /\ outCount.state = "error"
    /\ Len(file) = 3
    /\ ~Malformed(file[1]) /\ ~Malformed(file[2]) /\ Malformed(file[3])

C7_RegressionPoints ==
    LET FromNumberRow(q) ==
            /\ q.src \in 1..Len(file)
            /\ LET fields == split(strip(file[q.src]))
                   output == py_int(fields[2]) IN
               /\ is_int(fields[2]) = Returned(TRUE)
               /\ output.ok /\ q.label = output.val
               /\ q.features = <<py_int(fields[1]).val>>
        points == regression_points(file)
    IN /\ points.ok =>
             \A k \in 1..Len(points.val) : FromNumberRow(points.val[k])
       /\ regression_model.def =>
             \A k \in 1..Len(regression_model.trainedOn) :
                 FromNumberRow(regression_model.trainedOn[k])

\* C7 witness: the regression model was trained on the row "4,7", whose
\* label 7 differs from its feature 4.
C7_Witness ==
    /\ regression_model.def
    /\ \E k \in 1..Len(regression_model.trainedOn) :
          /\ regression_model.trainedOn[k].label = 7
          /\ regression_model.trainedOn[k].features = <<4>>

\* Lines of the file whose element is in a sequence of labeled points
Lines(pts) == {pts[k].src : k \in 1..Len(pts)}

\* An MSE cell that called MSE (its model was bound)
CalledMSE(e) == e.state \in {"value", "error"}

\* C8: predict(n) combines the two models: when the classification model
\* predicts class 1, 2 or 3 for n the result is 'Fizz', 'Buzz' or 'FizzBuzz';
\* when it predicts class 0 the result is the regression model's prediction
\* for n.
C8_PredictCombines ==
    (lastPredict.state # "none" /\ classification_model.def /\ regression_model.def) =>
        LET n == lastPredict.n
            c == classifier_predict(classification_model.param,
                     <<n, IF n % 3 = 0 THEN 1 ELSE 0, IF n % 5 = 0 THEN 1 ELSE 0>>)
        IN /\ lastPredict.state = "value"
           /\ c = 1 => lastPredict.out = [kind |-> "label", label |-> Str_Fizz, value |-> 0]
           /\ c = 2 => lastPredict.out = [kind |-> "label", label |-> Str_Buzz, value |-> 0]
           /\ c = 3 => lastPredict.out = [kind |-> "label", label |-> Str_FizzBuzz, value |-> 0]
           /\ c = 0 => lastPredict.out =
                          [kind |-> "number", label |-> <<>>,
                           value |-> regression_predict(regression_model.param, <<n>>)]

\* C9: each model is trained only on the training part and its MSE computed
\* only on the test part of one randomSplit; the two parts share no element
\* and together hold every point of the dataset that was split.
C9_TrainTestSplit ==
    /\ (classification_model.def /\ CalledMSE(clsMSE)) =>
          /\ Lines(classification_model.trainedOn) = clsSplit.train
          /\ Lines(classification_model.trainedOn) \cap Lines(clsMSE.on) = {}
          /\ Lines(classification_model.trainedOn) \cup Lines(clsMSE.on) = 1..Len(file)
          /\ Len(classification_model.trainedOn) + Len(clsMSE.on) = Len(file)
    /\ (regression_model.def /\ CalledMSE(regMSE)) =>
          LET numeric == {i \in 1..Len(file) : py_int(OutputOf(i)).ok} IN
          /\ Lines(regression_model.trainedOn) = regSplit.train
          /\ Lines(regression_model.trainedOn) \cap Lines(regMSE.on) = {}
          /\ Lines(regression_model.trainedOn) \cup Lines(regMSE.on) = numeric
          /\ Len(regression_model.trainedOn) + Len(regMSE.on) = Cardinality(numeric)

\* C9 witness: both models were trained on one row and evaluated on another.
C9_Witness ==
    /\ clsMSE.state = "value" /\ regMSE.state = "value"
    /\ Len(classification_model.trainedOn) = 1 /\ Len(clsMSE.on) = 1
    /\ Len(regression_model.trainedOn) = 1 /\ Len(regMSE.on) = 1

\* Sum of the squared differences between the labels of e.on and e.preds,
\* taken from the last position down
RECURSIVE SquaredError(_, _)
SquaredError(e, k) ==
    IF k = 0 THEN 0
    ELSE SquaredError(e, k - 1)
           + (e.on[k].label - e.preds[k]) * (e.on[k].label - e.preds[k])

Perfect(e) == \A k \in 1..Len(e.on) : e.preds[k] = e.on[k].label

\* C10 as stated: MSE returns the mean of the squared differences, 0 exactly
\* when every prediction equals its label and greater than 0 otherwise.
C10_MSEAlwaysMean ==
    \A e \in {clsMSE, regMSE} :
        CalledMSE(e) =>
            /\ e.state = "value"
            /\ e.num * Len(e.on) = SquaredError(e, Len(e.on)) * e.den
            /\ e.num = 0 <=> Perfect(e)
            /\ e.num >= 0 /\ e.den > 0

\* C10 amended: on test data that is not empty MSE returns the mean of the
\* squared differences, 0 exactly when every prediction equals its label and
\* greater than 0 otherwise; on empty test data it raises.
C10_MSENonEmptyMean ==
    \A e \in {clsMSE, regMSE} :
        CalledMSE(e) =>
            /\ e.state = "value" <=> Len(e.on) > 0
            /\ e.state = "value" =>
                  /\ Len(e.preds) = Len(e.on)
                  /\ e.num * Len(e.on) = SquaredError(e, Len(e.on)) * e.den
                  /\ e.num = 0 <=> Perfect(e)
                  /\ e.num >= 0 /\ e.den > 0

\* C10 witness: a classification MSE of 9/2 over two test points, one
\* predicted perfectly and one not, and a perfect regression MSE of 0.
C10_Witness ==
    /\ clsMSE.state = "value" /\ clsMSE.num = 9 /\ clsMSE.den = 2
    /\ Len(clsMSE.on) = 2 /\ ~Perfect(clsMSE)
    /\ regMSE.state = "value" /\ regMSE.num = 0 /\ Perfect(regMSE)

====
